---- MODULE Spec2Model ----
(***************************************************************************)
(* Model of plugin/completion/compiler_variant.py: the compiler variants   *)
(* (CompilerVariant, ClangCompilerVariant, ClangClCompilerVariant,         *)
(* LibClangCompilerVariant) and their errors_from_output methods.          *)
(*                                                                         *)
(* Texts are sequences of one-character strings.  The regular expressions  *)
(* of the source are kept as data (sequences of pattern items) and are run *)
(* by a backtracking matcher that tries alternatives in the order of       *)
(* Python's re module (greedy quantifiers, leftmost match for search).     *)
(***************************************************************************)
EXTENDS Integers, Sequences, FiniteSets, TLC

VARIABLES
    self,       \* class of the variant instance the method is called on
    attrs,      \* class attributes of every class (patterns, init_flags)
    output,     \* the argument of errors_from_output
    pc,         \* "call", "clang_loop", "lib_loop", "done"
    lines,      \* the sequence the for loop iterates over
    idx,        \* position of the for loop in lines
    heap,       \* list objects: heap[id] is the content of list id
    errors,     \* id of the local list `errors` (0 before it is created)
    logs,       \* entries written with log.error, in order
    outcome,    \* "running", "returned" or the name of the raised exception
    result,     \* content of the returned list at the moment of the return
    held,       \* ids of the lists earlier calls returned to the caller
    first,      \* input -> result of the first completed call with it
    ncalls,     \* number of calls started on the instance
    nmut        \* number of mutations the caller made to returned lists

vars == <<self, attrs, output, pc, lines, idx, heap, errors, logs, outcome,
          result, held, first, ncalls, nmut>>

(***************************************************************************)
(* Bounds                                                                  *)
(***************************************************************************)
MaxPieces == 4
MaxLines  == 3
MaxSpell  == 4
MaxLoc    == 4
MaxDiags  == 3
MaxCalls  == 3
MaxMut    == 2

(***************************************************************************)
(* Characters and character classes                                        *)
(***************************************************************************)
NL == "\n"
CR == "\r"
QUOTE == "\""
APOS == "'"

Alphabet ==
    {"f", "a", "b", "x", "e", "r", "o", "l", "i", "n", "c", "u", "m",
     ":", ",", "(", ")", " ", "1", "2", "3", "4", "7", NL, CR, QUOTE, APOS}

\* `.` without re.DOTALL: any character except a newline
Dot == Alphabet \ {NL}
\* \d
Digit == {"1", "2", "3", "4", "7"}
\* \s
Space == {" ", NL, CR}

(***************************************************************************)
(* Pattern items.  A pattern is a sequence of items:                       *)
(*   [t |-> "cls", c |-> S, q |-> "one" | "star" | "plus"]  a character of *)
(*       S, once, or greedily zero-or-more / one-or-more times             *)
(*   [t |-> "open", g |-> name], [t |-> "close", g |-> name]   (?P<name>   *)
(*       and the matching closing parenthesis                              *)
(***************************************************************************)
One(S)   == [t |-> "cls", c |-> S, q |-> "one"]
Star(S)  == [t |-> "cls", c |-> S, q |-> "star"]
Plus(S)  == [t |-> "cls", c |-> S, q |-> "plus"]
Open(g)  == [t |-> "open", g |-> g]
Close(g) == [t |-> "close", g |-> g]
Lit(c)   == One({c})

RECURSIVE Literal(_)
Literal(s) == IF s = <<>> THEN <<>> ELSE <<Lit(Head(s))>> \o Literal(Tail(s))

Named(g, items) == <<Open(g)>> \o items \o <<Close(g)>>

ErrorWord == <<"e", "r", "r", "o", "r", ":", " ">>

\* ":\s*.*error: (?P<error>.*)"
ErrorTail ==
    <<Lit(":"), Star(Space), Star(Dot)>> \o Literal(ErrorWord)
        \o Named("error", <<Star(Dot)>>)

\* the names of the row and col groups exchanged
ClangErrorRegexSwapped ==
    Named("file", <<Star(Dot)>>)
        \o <<Lit(":")>> \o Named("col", <<Plus(Digit)>>)
        \o <<Lit(":")>> \o Named("row", <<Plus(Digit)>>)
        \o ErrorTail

\* ClangCompilerVariant.error_regex
ClangErrorRegex ==
    Named("file", <<Star(Dot)>>)
        \o <<Lit(":")>> \o Named("row", <<Plus(Digit)>>)
        \o <<Lit(":")>> \o Named("col", <<Plus(Digit)>>)
        \o ErrorTail

\* the pattern of the parent class, as if it were not overridden
ClangClErrorRegexInherited ==
    Named("file", <<Star(Dot)>>)
        \o <<Lit(":")>> \o Named("row", <<Plus(Digit)>>)
        \o <<Lit(":")>> \o Named("col", <<Plus(Digit)>>)
        \o ErrorTail

\* ClangClCompilerVariant.error_regex
ClangClErrorRegex ==
    Named("file", <<Star(Dot)>>)
        \o <<Lit("(")>> \o Named("row", <<Plus(Digit)>>)
        \o <<Lit(",")>> \o Named("col", <<Plus(Digit)>>)
        \o <<Lit(")"), Star(Space)>>
        \o ErrorTail

\* LibClangCompilerVariant.pos_regex
PosRegex ==
    <<Lit(APOS)>> \o Named("file", <<Plus(Dot)>>) \o <<Lit(APOS), Star(Dot)>>
        \o Literal(<<"l", "i", "n", "e">>) \o <<One(Space)>>
        \o Named("row", <<Plus(Digit)>>) \o Literal(<<",", " ">>)
        \o Literal(<<"c", "o", "l", "u", "m", "n">>) \o <<One(Space)>>
        \o Named("col", <<Plus(Digit)>>)

\* LibClangCompilerVariant.msg_regex
MsgRegex ==
    <<Star({QUOTE})>> \o Named("error", <<Plus(Dot)>>) \o <<Star({QUOTE})>>

(***************************************************************************)
(* The matcher                                                             *)
(***************************************************************************)
NoMatch == [ok |-> FALSE]

GroupNames(pat) == {pat[k].g : k \in {j \in 1..Len(pat) : pat[j].t = "open"}}

\* number of consecutive characters of S in s from position i on
RECURSIVE RunLen(_, _, _)
RunLen(s, i, S) ==
    IF i <= Len(s) /\ s[i] \in S THEN 1 + RunLen(s, i + 1, S) ELSE 0

\* match items k.. of pat against s at position i; caps[g] = <<start, end>>
RECURSIVE MatchHere(_, _, _, _, _)
RECURSIVE TryRep(_, _, _, _, _, _, _)
RECURSIVE TryRepLazy(_, _, _, _, _, _, _)
MatchHere(pat, k, s, i, caps) ==
    IF k > Len(pat) THEN [ok |-> TRUE, caps |-> caps]
    ELSE LET it == pat[k] IN
         CASE it.t = "open" ->
                MatchHere(pat, k + 1, s, i, [caps EXCEPT ![it.g] = <<i, i>>])
           [] it.t = "close" ->
                MatchHere(pat, k + 1, s, i,
                          [caps EXCEPT ![it.g] = <<caps[it.g][1], i>>])
           [] it.t = "cls" /\ it.q = "one" ->
                IF i <= Len(s) /\ s[i] \in it.c
                THEN MatchHere(pat, k + 1, s, i + 1, caps)
                ELSE NoMatch
           [] it.t = "cls" /\ it.q = "star" ->
                TryRep(pat, k, s, i, caps, RunLen(s, i, it.c), 0)
           [] it.t = "cls" /\ it.q = "plus" ->
                TryRep(pat, k, s, i, caps, RunLen(s, i, it.c), 1)

\* a repetition that is not greedy: shortest run first
TryRepLazy(pat, k, s, i, caps, n, min) ==
    IF min > n THEN NoMatch
    ELSE LET r == MatchHere(pat, k + 1, s, i + min, caps) IN
         IF r.ok THEN r ELSE TryRepLazy(pat, k, s, i, caps, n, min + 1)

\* greedy repetition: longest run first, then give characters back
TryRep(pat, k, s, i, caps, n, min) ==
    IF n < min THEN NoMatch
    ELSE LET r == MatchHere(pat, k + 1, s, i + n, caps) IN
         IF r.ok THEN r ELSE TryRep(pat, k, s, i, caps, n - 1, min)

\* pattern.search(s): the match at the leftmost position that has one
RECURSIVE SearchFrom(_, _, _)
SearchFrom(pat, s, i) ==
    IF i > Len(s) + 1 THEN NoMatch
    ELSE LET r == MatchHere(pat, 1, s, i, [g \in GroupNames(pat) |-> <<0, 0>>])
         IN IF r.ok THEN r ELSE SearchFrom(pat, s, i + 1)

Search(pat, s) ==
    LET r == SearchFrom(pat, s, 1) IN
    IF r.ok THEN [ok |-> TRUE, caps |-> r.caps, string |-> s] ELSE NoMatch

\* match.groupdict(): the text of every named group
GroupDict(m) ==
    [g \in DOMAIN m.caps |-> SubSeq(m.string, m.caps[g][1], m.caps[g][2] - 1)]

\* an update that forgets the entries of d
UpdateReplaces(d, e) == e

\* dict.update
Update(d, e) ==
    [g \in DOMAIN d \cup DOMAIN e |-> IF g \in DOMAIN e THEN e[g] ELSE d[g]]

\* str.splitlines(): lines end at \n, \r or \r\n; no empty last line
RECURSIVE SplitFrom(_, _, _)
SplitFrom(s, i, cur) ==
    IF i > Len(s) THEN (IF cur = <<>> THEN <<>> ELSE <<cur>>)
    ELSE IF s[i] = CR /\ i < Len(s) /\ s[i + 1] = NL
         THEN <<cur>> \o SplitFrom(s, i + 2, <<>>)
    ELSE IF s[i] \in {NL, CR}
         THEN <<cur>> \o SplitFrom(s, i + 1, <<>>)
    ELSE SplitFrom(s, i + 1, Append(cur, s[i]))

Splitlines(s) == SplitFrom(s, 1, <<>>)

(***************************************************************************)
(* Compiled patterns                                                       *)
(***************************************************************************)
\* the source text of the patterns, as given to re.compile
ClangErrorPattern ==
    "(?P<file>.*):(?P<row>\\d+):(?P<col>\\d+):\\s*.*error: (?P<error>.*)"
ClangClErrorPattern ==
    "(?P<file>.*)\\((?P<row>\\d+),(?P<col>\\d+)\\)\\s*:\\s*.*error: (?P<error>.*)"
PosPattern ==
    "'(?P<file>.+)'.*line\\s(?P<row>\\d+), column\\s(?P<col>\\d+)"
MsgPattern == "\"*(?P<error>.+)\"*"

\* re.compile: the items of a pattern text
Compile(text) ==
    CASE text = ClangErrorPattern -> ClangErrorRegex
      [] text = ClangClErrorPattern -> ClangClErrorRegex
      [] text = PosPattern -> PosRegex
      [] text = MsgPattern -> MsgRegex

(***************************************************************************)
(* Classes and attribute lookup                                            *)
(***************************************************************************)
Classes ==
    {"CompilerVariant", "ClangCompilerVariant", "ClangClCompilerVariant",
     "LibClangCompilerVariant"}

\* the base class of every class ("object" ends the chain)
Bases ==
    [c \in Classes |->
        CASE c = "CompilerVariant" -> "object"
          [] c = "ClangCompilerVariant" -> "CompilerVariant"
          [] c = "ClangClCompilerVariant" -> "ClangCompilerVariant"
          [] c = "LibClangCompilerVariant" -> "CompilerVariant"]

\* what each class body defines; a method is named by the class defining it
ClassAttrs ==
    [c \in Classes |->
        CASE c = "CompilerVariant" ->
                [errors_from_output |-> "CompilerVariant"]
          [] c = "ClangCompilerVariant" ->
                [init_flags |-> <<"-c", "-fsyntax-only", "-x c++">>,
                 error_regex |-> ClangErrorPattern,
                 errors_from_output |-> "ClangCompilerVariant"]
          [] c = "ClangClCompilerVariant" ->
                [init_flags |-> <<"-c", "-fsyntax-only">>,
                 error_regex |-> ClangClErrorPattern]
          [] c = "LibClangCompilerVariant" ->
                [pos_regex |-> PosPattern,
                 msg_regex |-> MsgPattern,
                 errors_from_output |-> "LibClangCompilerVariant"]]

\* self.name: the attribute of the class, else of its bases
RECURSIVE GetAttr(_, _, _)
GetAttr(a, c, name) ==
    IF name \in DOMAIN a[c] THEN a[c][name] ELSE GetAttr(a, Bases[c], name)

\* str(obj) of an opaque diagnostic member: the text the object renders to
Str(obj) == obj.text

\* a test that never skips
NeverFalsy(m) == FALSE

\* `not m` for the result of pattern.search: None is falsy, a match is not
Falsy(m) == ~m.ok

\* one list shared by all calls, created by the first
AllocShared(h) ==
    IF h = <<>> THEN [id |-> 1, heap |-> <<<<>>>>] ELSE [id |-> 1, heap |-> h]

\* errors = []: a new list object
Alloc(h) == [id |-> Len(h) + 1, heap |-> Append(h, <<>>)]

\* errors.insert(0, d)
ListPrepend(l, d) == <<d>> \o l

\* errors.append(d)
ListAppend(l, d) == Append(l, d)

(***************************************************************************)
(* Inputs                                                                  *)
(***************************************************************************)
SeqsUpTo(S, n) == UNION {[1..k -> S] : k \in 0..n}

RECURSIVE Flatten(_)
Flatten(ss) == IF ss = <<>> THEN <<>> ELSE Head(ss) \o Flatten(Tail(ss))

Texts(pieces, n) == {Flatten(p) : p \in SeqsUpTo(pieces, n)}

PcF  == <<"f">>
PcTA == <<":", "1", ":", "2", ":">>
PcTB == <<"3", ":", "4", ":">>
PcPA == <<"(", "1", ",", "2", ")", ":">>
PcPB == <<"(", "3", ",", "4", ")">>
PcC  == <<":">>
PcD  == <<"7">>
PcE  == <<" ">> \o ErrorWord

ClangPieces   == {PcTA, PcTB, PcC, PcD, PcE}
ClangClPieces == {PcF, PcPA, PcPB, PcE}

\* whole diagnostics, for texts of several lines
ChT == PcTA \o PcE \o <<"a">>
ChP == PcPA \o PcE \o <<"b">>
ClangLines   == {<<>>, ChT, PcF \o ChT, ChP}
ClangClLines == {<<>>, ChP, PcF \o ChP, ChT}
LineEnds == {<<NL>>, <<CR>>, <<CR, NL>>}

\* the lines ls, each two separated by sep, ended by sep if trailing
RECURSIVE Join(_, _, _)
Join(ls, sep, trailing) ==
    IF ls = <<>> THEN <<>>
    ELSE IF Len(ls) = 1 THEN Head(ls) \o (IF trailing THEN sep ELSE <<>>)
    ELSE Head(ls) \o sep \o Join(Tail(ls), sep, trailing)

MultiLine(samples, n) ==
    {Join(ls, sep, t) : ls \in SeqsUpTo(samples, n), sep \in LineEnds,
                        t \in BOOLEAN}

LocQ == <<APOS, "f", APOS>>
LocL == <<",", " ", "l", "i", "n", "e", " ", "7">>
LocK == <<",", " ", "c", "o", "l", "u", "m", "n", " ", "3">>
LocPieces == {LocQ, LocL, LocK, <<NL>>}
SpellPieces == {<<QUOTE>>, <<"a">>, <<NL>>}

GoodLoc == LocQ \o LocL \o LocK
GoodSpell == <<"a", "b">>

Diag(loc, sp) == [location |-> [text |-> loc], spelling |-> [text |-> sp]]

SampleDiags ==
    {Diag(GoodLoc, GoodSpell),
     Diag(LocQ \o GoodLoc, <<QUOTE, "a", QUOTE>>),
     Diag(LocL \o LocK, <<"x">>),
     Diag(GoodLoc, <<>>),
     Diag(<<>>, <<NL>>)}

TextInputs(pieces, samples) ==
    Texts(pieces, MaxPieces) \cup MultiLine(samples, MaxLines)

DiagInputs ==
    {<<Diag(l, GoodSpell)>> : l \in Texts(LocPieces, MaxLoc)}
        \cup {<<Diag(GoodLoc, s)>> : s \in Texts(SpellPieces, MaxSpell)}
        \cup SeqsUpTo(SampleDiags, MaxDiags)

\* a few inputs per variant, for sequences of calls on one instance
SampleTexts ==
    {<<>>, PcF \o ChT, PcF \o ChT \o <<NL>> \o ChT, ChP \o <<CR>> \o PcF \o ChP}

CallInputs(c) ==
    IF c = "LibClangCompilerVariant" THEN SeqsUpTo(SampleDiags, 1)
    ELSE SampleTexts

Inputs(c) ==
    CASE c = "CompilerVariant" -> SampleTexts \cup SeqsUpTo(SampleDiags, 1)
      [] c = "ClangCompilerVariant" -> TextInputs(ClangPieces, ClangLines)
      [] c = "ClangClCompilerVariant" -> TextInputs(ClangClPieces, ClangClLines)
      [] c = "LibClangCompilerVariant" -> DiagInputs

(***************************************************************************)
(* The state machine                                                       *)
(***************************************************************************)
Method == GetAttr(attrs, self, "errors_from_output")

InitWith(c, o) ==
    /\ self = c
    /\ attrs = ClassAttrs
    /\ output = o
    /\ pc = "call"
    /\ lines = <<>>
    /\ idx = 0
    /\ heap = <<>>
    /\ errors = 0
    /\ logs = <<>>
    /\ outcome = "running"
    /\ result = <<>>
    /\ held = {}
    /\ first = <<>>
    /\ ncalls = 1
    /\ nmut = 0

Init == \E c \in Classes : \E o \in Inputs(c) : InitWith(c, o)

\* the first result of every input is remembered when a call returns
Remember(f, o, r) ==
    IF \E k \in 1..Len(f) : f[k].input = o THEN f
    ELSE Append(f, [input |-> o, result |-> r, call |-> ncalls])

Return ==
    /\ pc' = "done"
    /\ outcome' = "returned"
    /\ result' = heap[errors]
    /\ held' = held \cup {errors}
    /\ first' = Remember(first, output, heap[errors])
    /\ UNCHANGED <<self, attrs, output, lines, idx, heap, errors, logs,
                   ncalls, nmut>>

Raise(exc) ==
    /\ pc' = "done"
    /\ outcome' = exc
    /\ UNCHANGED <<self, attrs, output, lines, idx, heap, errors, logs,
                   result, held, first, ncalls, nmut>>

\* a base method that returns an empty list
BaseReturnsEmpty ==
    /\ pc = "call"
    /\ Method = "CompilerVariant"
    /\ pc' = "done"
    /\ outcome' = "returned"
    /\ UNCHANGED <<self, attrs, output, lines, idx, heap, errors, logs,
                   result, held, first, ncalls, nmut>>

\* CompilerVariant.errors_from_output
BaseErrorsFromOutput ==
    /\ pc = "call"
    /\ Method = "CompilerVariant"
    /\ Raise("NotImplementedError")

\* ClangCompilerVariant.errors_from_output: errors = [], output.splitlines()
ClangEnter ==
    /\ pc = "call"
    /\ Method = "ClangCompilerVariant"
    /\ heap' = Alloc(heap).heap
    /\ errors' = Alloc(heap).id
    /\ lines' = Splitlines(output)
    /\ idx' = 1
    /\ pc' = "clang_loop"
    /\ UNCHANGED <<self, attrs, output, logs, outcome, result, held, first,
                   ncalls, nmut>>

\* one iteration of `for line in output.splitlines()`
ClangIter ==
    /\ pc = "clang_loop"
    /\ idx <= Len(lines)
    /\ LET line == lines[idx]
           error_search == Search(Compile(GetAttr(attrs, self, "error_regex")), line)
       IN IF Falsy(error_search)
          THEN /\ idx' = idx + 1
               /\ UNCHANGED <<self, attrs, output, pc, lines, heap, errors,
                              logs, outcome, result, held, first, ncalls,
                              nmut>>
          ELSE IF ~error_search.ok
          THEN Raise("AttributeError")
          ELSE /\ heap' = [heap EXCEPT
                             ![errors] = ListAppend(@, GroupDict(error_search))]
               /\ idx' = idx + 1
               /\ UNCHANGED <<self, attrs, output, pc, lines, errors, logs,
                              outcome, result, held, first, ncalls, nmut>>

\* return errors
ClangReturn ==
    /\ pc = "clang_loop"
    /\ idx > Len(lines)
    /\ Return

\* LibClangCompilerVariant.errors_from_output: errors = [], iter(output)
LibEnter ==
    /\ pc = "call"
    /\ Method = "LibClangCompilerVariant"
    /\ heap' = Alloc(heap).heap
    /\ errors' = Alloc(heap).id
    /\ lines' = output
    /\ idx' = 1
    /\ pc' = "lib_loop"
    /\ UNCHANGED <<self, attrs, output, logs, outcome, result, held, first,
                   ncalls, nmut>>

\* every failure logged as a failure of the message
LogEntryAsError(what, regex, text) ==
    [what |-> "error", regex |-> regex, text |-> text]

\* log.error("regex %s failed to match <what>: %s", regex, text)
LogEntry(what, regex, text) == [what |-> what, regex |-> regex, text |-> text]

\* one iteration of `for diag in output`
LibIter ==
    /\ pc = "lib_loop"
    /\ idx <= Len(lines)
    /\ LET diag == lines[idx]
           location == Str(diag.location)
           spelling == Str(diag.spelling)
           pos_search == Search(Compile(GetAttr(attrs, self, "pos_regex")), location)
           msg_search == Search(Compile(GetAttr(attrs, self, "msg_regex")), spelling)
       IN IF Falsy(pos_search)
          THEN /\ logs' = Append(logs, LogEntry("location",
                                    GetAttr(attrs, self, "pos_regex"), location))
               /\ idx' = idx + 1
               /\ UNCHANGED <<self, attrs, output, pc, lines, heap, errors,
                              outcome, result, held, first, ncalls, nmut>>
          ELSE IF Falsy(msg_search)
          THEN /\ logs' = Append(logs, LogEntry("error",
                                    GetAttr(attrs, self, "msg_regex"), spelling))
               /\ idx' = idx + 1
               /\ UNCHANGED <<self, attrs, output, pc, lines, heap, errors,
                              outcome, result, held, first, ncalls, nmut>>
          ELSE IF ~pos_search.ok \/ ~msg_search.ok
          THEN Raise("AttributeError")
          ELSE /\ heap' = [heap EXCEPT
                             ![errors] = ListAppend(@, Update(GroupDict(pos_search),
                                                           GroupDict(msg_search)))]
               /\ idx' = idx + 1
               /\ UNCHANGED <<self, attrs, output, pc, lines, errors, logs,
                              outcome, result, held, first, ncalls, nmut>>

\* return errors
LibReturn ==
    /\ pc = "lib_loop"
    /\ idx > Len(lines)
    /\ Return

Next ==
    \/ BaseErrorsFromOutput
    \/ ClangEnter
    \/ ClangIter
    \/ ClangReturn
    \/ LibEnter
    \/ LibIter
    \/ LibReturn

Spec == Init /\ [][Next]_vars

(***************************************************************************)
(* Several calls on one instance.  The caller keeps the lists earlier      *)
(* calls returned and may change them between calls.                       *)
(***************************************************************************)
InitCalls == \E c \in Classes : \E o \in CallInputs(c) : InitWith(c, o)

\* errors_from_output is called again on the same instance
CallAgain ==
    /\ pc = "done"
    /\ ncalls < MaxCalls
    /\ \E o \in CallInputs(self) : output' = o
    /\ pc' = "call"
    /\ lines' = <<>>
    /\ idx' = 0
    /\ errors' = 0
    /\ outcome' = "running"
    /\ result' = <<>>
    /\ ncalls' = ncalls + 1
    /\ UNCHANGED <<self, attrs, heap, logs, held, first, nmut>>

Junk == [file |-> <<"x">>, row |-> <<"7">>, col |-> <<"7">>, error |-> <<"x">>]

\* the caller changes a list an earlier call returned, or a record in it
CallerMutates ==
    /\ pc = "done"
    /\ nmut < MaxMut
    /\ \E id \in held :
         \E l \in {<<>>, Append(heap[id], Junk)}
                    \cup {[heap[id] EXCEPT ![1] = Junk] : k \in {1} \cap DOMAIN heap[id]} :
            /\ l # heap[id]
            /\ heap' = [heap EXCEPT ![id] = l]
    /\ nmut' = nmut + 1
    /\ UNCHANGED <<self, attrs, output, pc, lines, idx, errors, logs, outcome,
                   result, held, first, ncalls>>

NextCalls == Next \/ CallAgain \/ CallerMutates

SpecCalls == InitCalls /\ [][NextCalls]_vars

(***************************************************************************)
(* Vocabulary of the properties                                            *)
(***************************************************************************)
Clang   == "ClangCompilerVariant"
ClangCl == "ClangClCompilerVariant"
LibClang == "LibClangCompilerVariant"

Returned == pc = "done" /\ outcome = "returned"

OccursAt(w, s, i) ==
    /\ i + Len(w) - 1 <= Len(s)
    /\ SubSeq(s, i, i + Len(w) - 1) = w

\* positions at which "error: " starts in s
ErrorAt(s) == {e \in 1..Len(s) : OccursAt(ErrorWord, s, e)}

Max(S) == CHOOSE x \in S : \A y \in S : y <= x
Min(S) == CHOOSE x \in S : \A y \in S : x <= y

\* <<p, q, r, c>>: open at p, digits, mid at q, digits, close at r, then
\* optional blanks (when gap) and the colon at c
Positions(s, open, mid, close, gap) ==
    {t \in {<<p,
              p + 1 + RunLen(s, p + 1, Digit),
              p + 2 + RunLen(s, p + 1, Digit)
                 + RunLen(s, p + 2 + RunLen(s, p + 1, Digit), Digit)>>
               : p \in 1..Len(s)} :
        /\ t[3] <= Len(s)
        /\ s[t[1]] = open
        /\ t[2] > t[1] + 1
        /\ s[t[2]] = mid
        /\ t[3] > t[2] + 1
        /\ s[t[3]] = close
        /\ gap => LET c == t[3] + 1 + RunLen(s, t[3] + 1, Space)
                  IN c <= Len(s) /\ s[c] = ":"}

\* index of the colon that ends the position t
ColonOf(s, t, gap) ==
    IF gap THEN t[3] + 1 + RunLen(s, t[3] + 1, Space) ELSE t[3]

ColonTriples(s) == Positions(s, ":", ":", ":", FALSE)
ParenPairs(s) == Positions(s, "(", ",", ")", TRUE)

\* a line matches when a position is followed, anywhere later, by "error: "
ClangMatches(line) ==
    \E t \in ColonTriples(line) : \E e \in ErrorAt(line) : e > t[3]
ClangClMatches(line) ==
    \E t \in ParenPairs(line) :
        \E e \in ErrorAt(line) : e > ColonOf(line, t, TRUE)

Field(s, from, to) == SubSeq(s, from, to - 1)
Rest(s, from) == SubSeq(s, from, Len(s))

ErrorRecord(f, r, c, e) == [file |-> f, row |-> r, col |-> c, error |-> e]

\* the readings of a line as <file><position>: error: <message>
Shaped(line, ts, gap) ==
    {ErrorRecord(Field(line, 1, t[1]), Field(line, t[1] + 1, t[2]),
                 Field(line, t[2] + 1, t[3]), Rest(line, t[3] + 10 - (IF gap THEN 0 ELSE 1)))
       : t \in {u \in ts :
                  OccursAt(<<":", " ">> \o ErrorWord, line,
                           u[3] + (IF gap THEN 1 ELSE 0))}}

ClangShaped(line) == Shaped(line, ColonTriples(line), FALSE)
ClangClShaped(line) == Shaped(line, ParenPairs(line), TRUE)

CleanMessage(d) == ErrorAt(d.error) = {}

\* a step of the text loop of variant c on its current line
TextStep(c) ==
    /\ self = c
    /\ pc = "clang_loop"
    /\ idx <= Len(lines)

Appends(d) ==
    /\ heap' = [heap EXCEPT ![errors] = Append(@, d)]
    /\ idx' = idx + 1
    /\ pc' = pc

Skips ==
    /\ heap' = heap
    /\ idx' = idx + 1
    /\ pc' = pc

(***************************************************************************)
(* C1: for the Clang variant the result has exactly one record per         *)
(* matching line of the input, in input order: the k-th record is the one  *)
(* produced from the k-th matching line.                                   *)
(***************************************************************************)
C1_OneRecordPerMatchingLineInOrder ==
    (pc = "done" /\ self = Clang) =>
        LET matching == SelectSeq(Splitlines(output), ClangMatches) IN
        /\ outcome = "returned"
        /\ Len(result) = Len(matching)
        /\ \A k \in 1..Len(matching) :
              result[k] = GroupDict(Search(ClangErrorRegex, matching[k]))

C1_Witness ==
    /\ Returned
    /\ self = Clang
    /\ Len(result) = 2
    /\ result[1] # result[2]
    /\ Len(lines) = 3
    /\ ~ClangMatches(lines[2])

(***************************************************************************)
(* C2 as claimed: every line <file>:<row>:<col>: error: <message> makes    *)
(* the Clang loop append exactly the record file=<file>, row=<row>,        *)
(* col=<col>, error=<message>.                                             *)
(***************************************************************************)
C2_Original ==
    [][TextStep(Clang) => \A d \in ClangShaped(lines[idx]) : Appends(d)]_vars

(***************************************************************************)
(* C2 as amended: every line <file>:<row>:<col>: error: <message> whose    *)
(* <message> contains no further "error: " makes the Clang loop append     *)
(* exactly the record file=<file>, row=<row>, col=<col>, error=<message>.  *)
(***************************************************************************)
C2_ShapedLineYieldsItsFields ==
    [][TextStep(Clang) =>
          \A d \in ClangShaped(lines[idx]) : CleanMessage(d) => Appends(d)]_vars

C2_Witness ==
    /\ Returned
    /\ self = Clang
    /\ Len(lines) = 1
    /\ \E d \in ClangShaped(lines[1]) :
          /\ CleanMessage(d)
          /\ Len(d.row) > 1
          /\ d.file # <<>>
          /\ result = <<d>>

(***************************************************************************)
(* C3 as claimed: in a matching line the file is everything before the     *)
(* first :<row>:<col>: triple of the line, row and col are the digits of   *)
(* that first triple, and the message is the text after an "error: ".      *)
(***************************************************************************)
FirstTriple(line) ==
    CHOOSE t \in ColonTriples(line) : \A u \in ColonTriples(line) : t[1] <= u[1]

C3_Original ==
    [][(TextStep(Clang) /\ ClangMatches(lines[idx])) =>
          LET line == lines[idx]
              t == FirstTriple(line)
          IN \E e \in ErrorAt(line) :
                Appends(ErrorRecord(Field(line, 1, t[1]),
                                    Field(line, t[1] + 1, t[2]),
                                    Field(line, t[2] + 1, t[3]),
                                    Rest(line, e + Len(ErrorWord))))]_vars

(***************************************************************************)
(* C3 as amended: in a matching line the message is the text after the     *)
(* last "error: " of the line, the file is everything before the last      *)
(* :<row>:<col>: triple that ends before that last "error: ", and row and  *)
(* col are the digits of that triple.                                      *)
(***************************************************************************)
LastError(line) == Max(ErrorAt(line))

LastTriple(line) ==
    LET ts == {t \in ColonTriples(line) : t[3] < LastError(line)}
    IN CHOOSE t \in ts : \A u \in ts : u[1] <= t[1]

C3_LastTripleLastError ==
    [][(TextStep(Clang) /\ ClangMatches(lines[idx])) =>
          LET line == lines[idx]
              t == LastTriple(line)
          IN Appends(ErrorRecord(Field(line, 1, t[1]),
                                 Field(line, t[1] + 1, t[2]),
                                 Field(line, t[2] + 1, t[3]),
                                 Rest(line, LastError(line) + Len(ErrorWord))))]_vars

C3_Witness ==
    /\ Returned
    /\ self = Clang
    /\ Len(lines) = 1
    /\ Cardinality(ColonTriples(lines[1])) > 1
    /\ Cardinality(ErrorAt(lines[1])) > 1
    /\ Len(result) = 1
    /\ result[1].file = Field(lines[1], 1, LastTriple(lines[1])[1])
    /\ LastTriple(lines[1]) # FirstTriple(lines[1])
    /\ result[1].error = Rest(lines[1], LastError(lines[1]) + Len(ErrorWord))
    /\ result[1].error # Rest(lines[1], Min(ErrorAt(lines[1])) + Len(ErrorWord))

(***************************************************************************)
(* C4 as claimed: for the LibClang variant a spelling of one line in one   *)
(* pair of surrounding double quotes yields as error the text without      *)
(* either quote, and a spelling of one line without a quote at either end  *)
(* is captured unchanged.                                                  *)
(***************************************************************************)
OneLine(sp) == \A i \in 1..Len(sp) : sp[i] \notin {NL, CR}

\* sp is inner in one pair of quotes, inner having no quote at its ends
QuotedOnce(sp, inner) ==
    /\ sp = <<QUOTE>> \o inner \o <<QUOTE>>
    /\ inner # <<>>
    /\ inner[1] # QUOTE
    /\ inner[Len(inner)] # QUOTE

Unquoted(sp) == sp # <<>> /\ sp[1] # QUOTE /\ sp[Len(sp)] # QUOTE

C4_Original ==
    (pc = "done" /\ self = LibClang /\ Len(output) = 1 /\ Len(result) = 1
        /\ OneLine(output[1].spelling.text)) =>
        LET sp == output[1].spelling.text IN
        /\ Unquoted(sp) => result[1].error = sp
        /\ Len(sp) > 2 /\ QuotedOnce(sp, SubSeq(sp, 2, Len(sp) - 1)) =>
              result[1].error = SubSeq(sp, 2, Len(sp) - 1)

(***************************************************************************)
(* C5: for the LibClang variant a diagnostic contributes a record iff its  *)
(* location matches the position pattern and its spelling matches the      *)
(* message pattern; the result lists the contributing records in input     *)
(* order, is never longer than the input, and every record in it carries   *)
(* the four fields file, row, col and error.                               *)
(***************************************************************************)
PosMatches(d) == Search(PosRegex, d.location.text).ok
\* .+ needs one character that is not a newline
MsgMatches(d) == \E i \in 1..Len(d.spelling.text) : d.spelling.text[i] # NL
Contributes(d) == PosMatches(d) /\ MsgMatches(d)
NotContributes(d) == ~Contributes(d)

RecordOf(d) ==
    LET p == GroupDict(Search(PosRegex, d.location.text))
        m == GroupDict(Search(MsgRegex, d.spelling.text))
    IN ErrorRecord(p.file, p.row, p.col, m.error)

C5_ContributesIffBothMatch ==
    (pc = "done" /\ self = LibClang) =>
        LET contrib == SelectSeq(output, Contributes) IN
        /\ outcome = "returned"
        /\ Len(result) = Len(contrib)
        /\ Len(result) <= Len(output)
        /\ \A k \in 1..Len(contrib) :
              /\ DOMAIN result[k] = {"file", "row", "col", "error"}
              /\ result[k] = RecordOf(contrib[k])

C5_Witness ==
    /\ Returned
    /\ self = LibClang
    /\ Len(output) = 3
    /\ Len(result) = 2
    /\ result[1] # result[2]
    /\ ~PosMatches(output[2]) \/ ~MsgMatches(output[2])

(***************************************************************************)
(* C6 as claimed: every line <file>(<row>,<col>): error: <message> makes   *)
(* the ClangCl loop append exactly the record file=<file>, row=<row>,      *)
(* col=<col>, error=<message>, and a line that does not match the pattern  *)
(* is skipped.                                                             *)
(***************************************************************************)
C6_Original ==
    [][TextStep(ClangCl) =>
          /\ \A d \in ClangClShaped(lines[idx]) : Appends(d)
          /\ ~ClangClMatches(lines[idx]) => Skips]_vars

(***************************************************************************)
(* C6 as amended: every line <file>(<row>,<col>): error: <message> whose   *)
(* <message> contains no further "error: " makes the ClangCl loop append   *)
(* exactly the record file=<file>, row=<row>, col=<col>, error=<message>   *)
(* at the end of the result, and a line that does not match the pattern    *)
(* is skipped.                                                             *)
(***************************************************************************)
C6_ParenShapedLineYieldsItsFields ==
    [][TextStep(ClangCl) =>
          /\ \A d \in ClangClShaped(lines[idx]) : CleanMessage(d) => Appends(d)
          /\ ~ClangClMatches(lines[idx]) => Skips]_vars

C6_Witness ==
    /\ Returned
    /\ self = ClangCl
    /\ Len(lines) = 3
    /\ ~ClangClMatches(lines[2])
    /\ Len(result) = 2
    /\ result[1] # result[2]
    /\ \A k \in 1..2 :
          \E d \in ClangClShaped(lines[2 * k - 1]) :
              CleanMessage(d) /\ result[k] = d

(***************************************************************************)
(* C7: on every input a call on a concrete variant terminates by returning *)
(* a sequence and never ends in an error: no outcome other than the return *)
(* occurs, the call is never stuck before it is done, and every step       *)
(* advances a measure bounded by the length of the input, so the call is   *)
(* done after at most Len(output) + 2 steps.                               *)
(***************************************************************************)
Concrete == {Clang, ClangCl, LibClang}

Measure ==
    CASE pc = "call" -> 0
      [] pc \in {"clang_loop", "lib_loop"} -> idx
      [] pc = "done" -> Len(lines) + 2

\* the guard of some step of the call holds
CanStep ==
    \/ pc = "call" /\ Method \in {"CompilerVariant", Clang, LibClang}
    \/ pc = "clang_loop" /\ idx \in 1..(Len(lines) + 1)
    \/ pc = "lib_loop" /\ idx \in 1..(Len(lines) + 1)

C7_ConcreteVariantsTotal ==
    /\ [](self \in Concrete =>
            /\ outcome \in {"running", "returned"}
            /\ pc = "done" => outcome = "returned"
            /\ pc # "done" => CanStep
            /\ Measure <= Len(output) + 2)
    /\ [][(self \in Concrete) => (Measure' > Measure)]_vars

C7_Witness ==
    /\ Returned
    /\ self \in Concrete
    /\ output # <<>>
    /\ result = <<>>
    /\ idx > 1

(***************************************************************************)
(* C8: a call on the base CompilerVariant always ends in                   *)
(* NotImplementedError, never returns, and raises before it looks at the   *)
(* input: the only step of the call is the raise, it is always possible,   *)
(* no list is created, nothing is iterated, nothing is logged.             *)
(***************************************************************************)
C8_BaseAlwaysRaises ==
    /\ [](self = "CompilerVariant" =>
            /\ outcome \in {"running", "NotImplementedError"}
            /\ pc \in {"call", "done"}
            /\ pc = "done" <=> outcome = "NotImplementedError"
            /\ pc = "call" => CanStep
            /\ errors = 0 /\ heap = <<>> /\ lines = <<>> /\ idx = 0
            /\ logs = <<>> /\ result = <<>> /\ held = {})
    /\ [][(self = "CompilerVariant") => (pc = "call" /\ pc' = "done")]_vars

C8_Witness ==
    /\ self = "CompilerVariant"
    /\ pc = "done"
    /\ outcome = "NotImplementedError"
    /\ output # <<>>

(***************************************************************************)
(* C9: a call on a concrete variant returns what the first completed call  *)
(* with the same input returned, whatever calls came in between and        *)
(* whatever the caller did to the lists returned earlier; the patterns and *)
(* init_flags never change.                                                *)
(***************************************************************************)
C9_Stateless ==
    /\ attrs = ClassAttrs
    /\ Returned =>
          \A k \in 1..Len(first) :
              first[k].input = output => result = first[k].result

C9_Witness ==
    /\ Returned
    /\ self \in Concrete
    /\ ncalls = 3
    /\ nmut >= 1
    /\ result # <<>>
    /\ \E k \in 1..Len(first) : first[k].input = output /\ first[k].call = 1
    /\ \E id \in held : id # errors /\ heap[id] # result

(***************************************************************************)
(* C10: for the LibClang variant a call logs exactly one entry per dropped *)
(* diagnostic, in input order, and none for a diagnostic that yields a     *)
(* record: the location failure when the location does not match (also    *)
(* when the spelling does not match either), the message failure only when *)
(* the location matches and the spelling does not.                         *)
(***************************************************************************)
ExpectedLog(d) ==
    IF ~PosMatches(d)
    THEN [what |-> "location", regex |-> PosPattern, text |-> d.location.text]
    ELSE [what |-> "error", regex |-> MsgPattern, text |-> d.spelling.text]

C10_OneLogPerDroppedRecord ==
    (pc = "done" /\ self = LibClang) =>
        LET dropped == SelectSeq(output, NotContributes) IN
        /\ Len(logs) = Len(dropped)
        /\ \A k \in 1..Len(dropped) : logs[k] = ExpectedLog(dropped[k])
        /\ Len(result) + Len(logs) = Len(output)

C10_Witness ==
    /\ Returned
    /\ self = LibClang
    /\ Len(output) = 3
    /\ Len(result) = 1
    /\ Len(logs) = 2
    /\ logs[1].what # logs[2].what
    /\ \E k \in 1..3 : ~PosMatches(output[k]) /\ ~MsgMatches(output[k])

====
